---- MODULE Spec2Model ----
(***************************************************************************)
(* bongodb: an HTTP gateway in front of MongoDB.                           *)
(*                                                                         *)
(* The model follows the two entry points of the repository:               *)
(*   src/unnamed/part_000  PUT .../collections/:collectionName/:mongoId,   *)
(*                         GET (list, by id), DELETE by id                 *)
(*   src/index.js          PUT .../collections/:collectionName (the id is  *)
(*                         req.body._id), GET (list, by id)                *)
(* together with the DatabaseService routes (connect, disconnect) that     *)
(* both files share line for line.                                         *)
(*                                                                         *)
(* Every handler is async: it runs synchronously up to an await of a       *)
(* driver call, the backend executes that call atomically on one document, *)
(* and the continuation runs later.  Each such piece is one action; the    *)
(* requests in flight are the slots of req.                                *)
(*                                                                         *)
(* JavaScript objects are sequences of <<key, value>> pairs in insertion   *)
(* order, which is the order JSON.stringify serialises them in.            *)
(***************************************************************************)
EXTENDS Integers, Sequences, FiniteSets, TLC

(* ------------------------------ bounds -------------------------------- *)

\* concurrent requests in flight
MaxReqs == 2
\* the clock (milliseconds since start) stops ticking here
MaxClock == 1
\* ObjectIds the driver generates for documents inserted without _id
MaxGen == 1
\* MongoClient objects ever constructed by Connect
MaxClients == 2
\* requests other than Connect that arrive in all: under SpecDocs, and
\* under Spec
MaxRequests == 4
MaxOps == 2

(* ------------------------------ values -------------------------------- *)

\* JavaScript values that occur as property values.  One record shape for
\* all of them: kind, a string payload and a numeric payload.
Undefined == [kind |-> "undefined", s |-> "", n |-> 0]
Null == [kind |-> "null", s |-> "", n |-> 0]
Str(x) == [kind |-> "string", s |-> x, n |-> 0]
\* the ObjectId numbered i, and the 24 hexadecimal characters that spell it
Oid(i) == [kind |-> "oid", s |-> "", n |-> i]
HexText(i) == [kind |-> "hex", s |-> "", n |-> i]
\* Date.prototype.toISOString: the text of the instant t (ms resolution)
toISOString(t) == [kind |-> "iso", s |-> "", n |-> t]
\* new Date(text): the instant an ISO text denotes
DateOf(v) == v.n
\* ToBoolean: undefined, null and the empty string are falsy
Truthy(v) == ~(v.kind \in {"undefined", "null"} \/ (v.kind = "string" /\ v.s = ""))
\* a || b
OrElse(a, b) == IF Truthy(a) THEN a ELSE b

(* ------------------------------ objects ------------------------------- *)

HasKey(o, k) == \E i \in 1..Len(o) : o[i][1] = k
\* o[k]
GetProp(o, k) ==
  IF HasKey(o, k) THEN o[CHOOSE i \in 1..Len(o) : o[i][1] = k][2] ELSE Undefined
\* o[k] = v: an existing key keeps its position, a new key goes last
SetProp(o, k, v) ==
  IF HasKey(o, k)
  THEN LET i == CHOOSE j \in 1..Len(o) : o[j][1] = k
       IN SubSeq(o, 1, i - 1) \o <<<<k, v>>>> \o SubSeq(o, i + 1, Len(o))
  ELSE Append(o, <<k, v>>)
\* (mutant) a spread in which the left operand wins a key collision
RECURSIVE SpreadLeftWins(_, _)
SpreadLeftWins(a, b) ==
  IF b = <<>> THEN a
  ELSE SpreadLeftWins(IF HasKey(a, Head(b)[1]) THEN a
                      ELSE Append(a, Head(b)), Tail(b))
\* { ...a, ...b }
RECURSIVE Spread(_, _)
Spread(a, b) ==
  IF b = <<>> THEN a ELSE Spread(SetProp(a, Head(b)[1], Head(b)[2]), Tail(b))
KeysOf(o) == {o[i][1] : i \in 1..Len(o)}

\* key.startsWith('_'), tabulated over the keys of the model
UnderscoreKeys == {"_id", "_createdAt", "_lastModified"}
startsWithUnderscore(k) == k \in UnderscoreKeys

\* (mutant) a filter that takes out the _id only
IsUserPairExceptId(p) == p[1] # "_id"
\* ([key]) => !key.startsWith('_')
IsUserPair(p) == ~startsWithUnderscore(p[1])
removeComputedProperties(obj) == SelectSeq(obj, IsUserPair)

(* ---------------------------- fingerprint ----------------------------- *)

\* JSON.stringify: the properties in insertion order; a property whose
\* value is undefined is left out
IsDefinedPair(p) == p[2] # Undefined
JSONstringify(obj) == SelectSeq(obj, IsDefinedPair)

\* HTTP header values: absent, a literal text, or a base64 sha256 digest.
\* The digest is modelled collision free: it is determined by, and
\* determines, the text that was hashed.
NoHeader == [kind |-> "absent", text |-> "", of |-> <<>>]
TextHeader(t) == [kind |-> "text", text |-> t, of |-> <<>>]
sha256base64(json) == [kind |-> "digest", text |-> "", of |-> json]
\* crypto.createHash('sha256').update(JSON.stringify(obj)).digest('base64')
ETagOf(obj) == sha256base64(JSONstringify(obj))
\* (mutant) !ifMatch that takes every header that is no digest for missing
HeaderFalsyAnyText(h) == h.kind # "digest"
\* !ifMatch
HeaderFalsy(h) == h.kind = "absent" \/ (h.kind = "text" /\ h.text = "")


(* ------------------------------ inputs -------------------------------- *)

\* what a client can send: database names (constructor is a property every
\* JavaScript object inherits), user keys and values, path identifiers
DatabaseNames == {"db1", "constructor"}
InheritedNames == {"constructor"}
ConnectNames == {"db1"}
Aliases == {"able-ant", "bold-bee"}
NotAnId == Str("not-an-id")

\* identifiers: the one a client makes up itself, then the generated ones
NumClientIds == 1
ClientIds == 1..NumClientIds
AllIds == 1..(NumClientIds + MaxGen)

\* the user properties of the bodies clients send: a value and another for
\* the same key, a second key, the same two in the other order
UserBodies ==
  { <<<<"name", Str("a")>>>>,
    <<<<"name", Str("b")>>>>,
    <<<<"name", Str("a")>>, <<"tag", Str("a")>>>> }
\* a body that also carries an _id property
WithId(text, fields) == <<<<"_id", text>>>> \o fields
IdTexts(ids) == {HexText(i) : i \in ids} \cup {NotAnId}
\* the fields of a body above held in the other key order, as a client or
\* another document may hold them
ReorderedBodies == { <<<<"tag", Str("a")>>, <<"name", Str("a")>>>> }
\* the ETag headers of the 204 and 201 responses to these bodies
ETagsSent ==
  {ETagOf(removeComputedProperties(b)) : b \in UserBodies \cup ReorderedBodies}
    \cup {ETagOf(WithId(HexText(i), b)) : i \in ClientIds, b \in UserBodies}

(* ------------------------------- state -------------------------------- *)

VARIABLES
  CONNECTED_CLIENTS,  \* the registry: database name -> {client, connectionName}
  clients,            \* the MongoClient objects stored so far: open?, times closed
  store,              \* the collection on the backend: ObjectId number -> document
  generated,          \* how many ObjectIds the driver has generated
  clock,              \* Date.now(), in milliseconds
  req,                \* the requests in flight: one record per slot
  res,                \* the response the last step sent, NoRes if it sent none
  started             \* how many requests have arrived

vars == <<CONNECTED_CLIENTS, clients, store, generated, clock, req, res, started>>

Reqs == 1..MaxReqs
NoDoc == <<>>
NoEntry == [own |-> FALSE, client |-> 0, connectionName |-> ""]
IdleReq ==
  [pc |-> "idle", op |-> "", route |-> "", db |-> "", client |-> 0,
   connectionName |-> "", id |-> Undefined, body |-> <<>>,
   ifMatch |-> NoHeader, existingDoc |-> NoDoc, doc |-> NoDoc,
   limit |-> 0, skip |-> 0]
NoRes ==
  [op |-> "", db |-> "", ifMatch |-> NoHeader, status |-> 0, etag |-> NoHeader,
   lastModified |-> Undefined, insertedId |-> Undefined, items |-> <<>>,
   count |-> 0, name |-> ""]

Init ==
  /\ CONNECTED_CLIENTS = [d \in DatabaseNames |-> NoEntry]
  /\ clients = <<>>
  /\ store = [i \in AllIds |-> NoDoc]
  /\ generated = 0
  /\ clock = 0
  /\ req = [r \in Reqs |-> IdleReq]
  /\ res = NoRes
  /\ started = 0

\* the identifiers a client can know: its own and those generated so far
KnownIds == ClientIds \cup (NumClientIds + 1)..(NumClientIds + generated)

(* --------------------------- shared pieces ---------------------------- *)

\* a request arrives and is given the first free slot, r
Arrive(r) ==
  /\ req[r].pc = "idle"
  /\ \A x \in 1..(r - 1) : req[x].pc # "idle"
  /\ started < MaxRequests
  /\ started' = started + 1

\* const { client, connectionName } = CONNECTED_CLIENTS[databaseName];
\* destructuring undefined throws a TypeError; an inherited property of the
\* registry object destructures to two undefined values
Destructure(databaseName) ==
  IF CONNECTED_CLIENTS[databaseName].own
  THEN [throws |-> FALSE, client |-> CONNECTED_CLIENTS[databaseName].client,
        connectionName |-> CONNECTED_CLIENTS[databaseName].connectionName]
  ELSE [throws |-> ~(databaseName \in InheritedNames), client |-> 0,
        connectionName |-> ""]

\* ObjectId.isValid, and whether new ObjectId(x) returns rather than throws
ObjectIdIsValid(x) == x.kind \in {"hex", "oid"}
\* new ObjectId(x)
NewObjectId(x) == Oid(x.n)

\* res.status(..).json(..) with the headers set before it; the request is
\* over
Send(r, q, status, etag, lastModified, insertedId, items) ==
  /\ res' = [op |-> q.op, db |-> q.db, ifMatch |-> q.ifMatch, status |-> status,
             etag |-> etag, lastModified |-> lastModified, insertedId |-> insertedId,
             items |-> items, count |-> Len(items), name |-> q.connectionName]
  /\ req' = [req EXCEPT ![r] = IdleReq]
Plain(r, q, status) == Send(r, q, status, NoHeader, Undefined, Undefined, <<>>)

\* An exception that leaves an async handler outside its try block rejects
\* the handler's promise.  Express 5 hands the rejection to the error
\* middleware, which answers err.status || 500; Express 4 ignores it and the
\* request is never answered (status 0 here).
Unhandled(r, q) == \E status \in {500, 0} : Plain(r, q, status)

\* a driver call on a MongoClient that was closed either fails
\* (MongoNotConnectedError) or reconnects and runs, by driver version
DriverMayThrow(q) == ~clients[q.client].open

\* the server keeps _id as the first field of a stored document
MongoStored(doc) ==
  LET NotId(p) == p[1] # "_id"
  IN <<<<"_id", GetProp(doc, "_id")>>>> \o SelectSeq(doc, NotId)

(* ------------------------- QueryService: PUT -------------------------- *)

\* the If-Match values a client sends: none, an empty one, a made-up one,
\* the ETag a create or an update answered for some body (ETagsSent, below),
\* the fingerprint of a stored document
IfMatchValues ==
  {NoHeader, TextHeader(""), TextHeader("stale-value")}
    \cup ETagsSent
    \cup {ETagOf(removeComputedProperties(store[i])) : i \in {j \in AllIds : store[j] # NoDoc}}

\* The body and the If-Match header of a PUT are first used in the
\* continuation that follows findOne: the model draws them there, so that a
\* request waiting for findOne carries its identifier only.  (index.js reads
\* req.body._id before; that property is drawn when the request arrives.)

\* PUT /databases/:databaseName/collections/:collectionName/:mongoId, up to
\* the await of findOne
PutMongoIdBegin(r, databaseName, mongoId) ==
  /\ Arrive(r)
  /\ LET d == Destructure(databaseName)
         q == [req[r] EXCEPT !.op = "put", !.route = "mongoId", !.db = databaseName,
                             !.client = d.client, !.connectionName = d.connectionName]
     IN IF d.throws THEN Unhandled(r, q)
        ELSE IF ~ObjectIdIsValid(mongoId) THEN Plain(r, q, 400)
        ELSE IF d.client = 0 THEN Plain(r, [q EXCEPT !.connectionName = ""], 404)
        ELSE /\ req' = [req EXCEPT ![r] = [q EXCEPT !.pc = "findOne",
                                                    !.id = NewObjectId(mongoId)]]
             /\ res' = NoRes
  /\ UNCHANGED <<CONNECTED_CLIENTS, clients, store, generated, clock>>

\* PUT /databases/:databaseName/collections/:collectionName, up to the await
\* of findOne; the identifier is req.body._id (bodyId), undefined when the
\* body has none
PutBodyIdBegin(r, databaseName, bodyId) ==
  /\ Arrive(r)
  /\ LET d == Destructure(databaseName)
         q == [req[r] EXCEPT !.op = "put", !.route = "bodyId", !.db = databaseName,
                             !.client = d.client, !.connectionName = d.connectionName]
     IN IF d.throws THEN Unhandled(r, q)
        ELSE IF Truthy(bodyId) /\ ~ObjectIdIsValid(bodyId) THEN Plain(r, q, 500)
        ELSE IF d.client = 0 THEN Plain(r, q, 404)
        ELSE /\ req' = [req EXCEPT ![r] = [q EXCEPT
                          !.pc = "findOne",
                          !.id = IF Truthy(bodyId) THEN NewObjectId(bodyId) ELSE Undefined]]
             /\ res' = NoRes
  /\ UNCHANGED <<CONNECTED_CLIENTS, clients, store, generated, clock>>

\* req.body of a PUT in flight: on the route without :mongoId its _id, if
\* any, is the one the request was looked up by
BodiesOf(q) ==
  IF q.route = "bodyId" /\ q.id = Undefined THEN UserBodies
  ELSE IF q.route = "bodyId" THEN {WithId(HexText(q.id.n), f) : f \in UserBodies}
  ELSE UserBodies \cup {WithId(HexText(q.id.n), <<<<"name", Str("a")>>>>)}

\* collection.findOne({ _id }): null when no document has the identifier
\* (an undefined _id is sent as null and matches nothing)
FindOne(id) == IF id = Undefined THEN NoDoc ELSE store[id.n]

\* the backend runs the findOne of a PUT
PutFindOne(r) ==
  /\ req[r].pc = "findOne" /\ req[r].op = "put"
  /\ \/ /\ req' = [req EXCEPT ![r].pc = "afterFind",
                              ![r].existingDoc = FindOne(req[r].id)]
        /\ res' = NoRes
     \/ /\ DriverMayThrow(req[r])
        /\ Plain(r, req[r], 500)
  /\ UNCHANGED <<CONNECTED_CLIENTS, clients, store, generated, clock, started>>

\* (mutant) currentETag over the whole stored document, computed fields too
CurrentETagWholeDoc(existingDoc) == ETagOf(existingDoc)
\* currentETag
CurrentETag(existingDoc) == ETagOf(removeComputedProperties(existingDoc))
\* new Date(_lastModified || _createdAt).toISOString()
LastModifiedOf(existingDoc) ==
  toISOString(DateOf(OrElse(GetProp(existingDoc, "_lastModified"),
                            GetProp(existingDoc, "_createdAt"))))
\* updatedDocument
UpdatedDocument(existingDoc, body, documentId, now) ==
  SetProp(SetProp(SetProp(
      Spread(removeComputedProperties(existingDoc), removeComputedProperties(body)),
      "_id", documentId),
      "_lastModified", toISOString(now)),
      "_createdAt", GetProp(existingDoc, "_createdAt"))
\* (mutant) a new document that takes no field of the request body
NewDocumentTimestampsOnly(route, body, documentId, now) ==
  LET base == <<<<"_createdAt", toISOString(now)>>>>
  IN IF route = "mongoId"
     THEN SetProp(SetProp(base, "_id", documentId), "_lastModified", Null)
     ELSE SetProp(base, "_lastModified", Null)
\* newDocument (with :mongoId) and newResource (without)
NewDocument(route, body, documentId, now) ==
  LET base == SetProp(removeComputedProperties(body), "_createdAt", toISOString(now))
  IN IF route = "mongoId"
     THEN SetProp(SetProp(base, "_id", documentId), "_lastModified", Null)
     ELSE SetProp(base, "_lastModified", Null)

\* which way the If-Match check of a PUT on an existing document goes: 409,
\* 412, or on to the replace that is answered 204
MatchOutcome(existingDoc, ifMatch) ==
  IF HeaderFalsy(ifMatch) THEN 409
  ELSE IF ifMatch # CurrentETag(existingDoc) THEN 412
  ELSE 204

\* the continuation of a PUT after findOne, up to the await of replaceOne or
\* insertOne (the create path never looks at the If-Match header: the slot
\* drops it)
PutAfterFind(r, body, ifMatch) ==
  /\ req[r].pc = "afterFind"
  /\ LET q == [req[r] EXCEPT !.body = body, !.ifMatch = ifMatch]
         existingDoc == q.existingDoc
     IN IF existingDoc # NoDoc
        THEN IF MatchOutcome(existingDoc, ifMatch) # 204
             THEN Send(r, q, MatchOutcome(existingDoc, ifMatch), CurrentETag(existingDoc),
                       LastModifiedOf(existingDoc), Undefined, <<>>)
             ELSE /\ req' = [req EXCEPT ![r] = [q EXCEPT
                               !.pc = "replaceOne",
                               !.doc = UpdatedDocument(existingDoc, body, q.id, clock)]]
                  /\ res' = NoRes
        ELSE /\ q.route = "bodyId" =>
                  generated + Cardinality({x \in Reqs : req[x].pc = "insertOne"
                                                       /\ req[x].route = "bodyId"}) < MaxGen
             /\ req' = [req EXCEPT ![r] = [q EXCEPT
                          !.pc = "insertOne", !.ifMatch = NoHeader,
                          !.doc = NewDocument(q.route, body, q.id, clock)]]
             /\ res' = NoRes
  /\ UNCHANGED <<CONNECTED_CLIENTS, clients, store, generated, clock, started>>

\* collection.replaceOne({ _id }, updatedDocument): replaces the document
\* that has the identifier, if there is one
ReplaceOne(id, doc) ==
  IF store[id.n] # NoDoc THEN [store EXCEPT ![id.n] = MongoStored(doc)] ELSE store

\* the backend runs the replaceOne of a PUT, and the PUT answers 204
PutReplaceOne(r) ==
  /\ req[r].pc = "replaceOne"
  /\ LET q == req[r]
     IN \/ /\ store' = ReplaceOne(q.id, q.doc)
           /\ Send(r, q, 204, ETagOf(removeComputedProperties(q.body)),
                   toISOString(DateOf(GetProp(q.doc, "_lastModified"))), Undefined, <<>>)
        \/ /\ DriverMayThrow(q)
           /\ Plain(r, q, 500)
           /\ UNCHANGED store
  /\ UNCHANGED <<CONNECTED_CLIENTS, clients, generated, clock, started>>

\* the backend runs the insertOne of a PUT, and the PUT answers 201; a
\* document without _id gets a generated one, a taken _id is a duplicate key
PutInsertOne(r) ==
  /\ req[r].pc = "insertOne"
  /\ LET q == req[r]
         hasId == HasKey(q.doc, "_id")
         insertedId == IF hasId THEN GetProp(q.doc, "_id")
                       ELSE Oid(NumClientIds + generated + 1)
     IN \/ /\ hasId => store[insertedId.n] = NoDoc
           /\ store' = [store EXCEPT ![insertedId.n] =
                          MongoStored(SetProp(q.doc, "_id", insertedId))]
           /\ generated' = IF hasId THEN generated ELSE generated + 1
           /\ Send(r, q, 201, ETagOf(q.body), GetProp(q.doc, "_createdAt"),
                   insertedId, <<>>)
        \/ /\ (hasId /\ store[insertedId.n] # NoDoc) \/ DriverMayThrow(q)
           /\ Plain(r, q, 500)
           /\ UNCHANGED <<store, generated>>
  /\ UNCHANGED <<CONNECTED_CLIENTS, clients, clock, started>>

(* ---------------------- QueryService: GET, DELETE --------------------- *)

\* the text of a limit or skip query parameter
NumText(n) == [kind |-> "numtext", s |-> "", n |-> n]
QueryParams == {Undefined, Str("abc"), NumText(-1), NumText(0), NumText(1)}
\* parseInt(x, 10) || 0: NaN and 0 both give 0
ParseIntOrZero(x) == IF x.kind = "numtext" THEN x.n ELSE 0

\* the filter query parameter: absent, text that is not JSON, or the JSON of
\* an object with some of the sub-objects query, projection, options (each
\* one empty)
FilterSubObjects == {"query", "projection", "options"}
Filters ==
  {[given |-> FALSE, json |-> TRUE, has |-> {}], [given |-> TRUE, json |-> FALSE, has |-> {}]}
    \cup {[given |-> TRUE, json |-> TRUE, has |-> h] : h \in SUBSET FilterSubObjects}

\* GET /databases/:databaseName/collections/:collectionName, up to the await
\* of find(..).toArray()
ListBegin(r, databaseName, filter, limit, skip) ==
  /\ Arrive(r)
  /\ LET d == Destructure(databaseName)
         q == [req[r] EXCEPT !.op = "list", !.db = databaseName, !.client = d.client,
                             !.connectionName = d.connectionName,
                             !.limit = ParseIntOrZero(limit),
                             !.skip = ParseIntOrZero(skip)]
     IN IF d.throws THEN Unhandled(r, q)
        ELSE IF filter.given /\ ~filter.json THEN Plain(r, q, 500)
        ELSE IF d.client = 0 THEN Plain(r, [q EXCEPT !.connectionName = ""], 404)
        ELSE IF filter.given /\ ~("options" \in filter.has) THEN Plain(r, q, 500)
        ELSE /\ req' = [req EXCEPT ![r] = [q EXCEPT !.pc = "find"]]
             /\ res' = NoRes
  /\ UNCHANGED <<CONNECTED_CLIENTS, clients, store, generated, clock>>

\* the documents of the collection, in identifier order
RECURSIVE DocsFrom(_)
DocsFrom(i) ==
  IF i > NumClientIds + MaxGen THEN <<>>
  ELSE (IF store[i] # NoDoc THEN <<store[i]>> ELSE <<>>) \o DocsFrom(i + 1)
\* find({}, {}, {limit, skip}).toArray(): a limit of 0 is no limit, a
\* negative limit is its absolute value
Find(limit, skip) ==
  LET all == DocsFrom(1)
      rest == SubSeq(all, skip + 1, Len(all))
      n == IF limit < 0 THEN 0 - limit ELSE limit
  IN IF n = 0 THEN rest ELSE SubSeq(rest, 1, IF n < Len(rest) THEN n ELSE Len(rest))

\* the backend runs the find of a list, and the list answers 200; the
\* server rejects a negative skip
ListFind(r) ==
  /\ req[r].pc = "find"
  /\ LET q == req[r]
     IN IF q.skip < 0 THEN Plain(r, q, 500)
        ELSE \/ Send(r, q, 200, NoHeader, Undefined, Undefined, Find(q.limit, q.skip))
             \/ DriverMayThrow(q) /\ Plain(r, q, 500)
  /\ UNCHANGED <<CONNECTED_CLIENTS, clients, store, generated, clock, started>>

\* GET /databases/:databaseName/collections/:collectionName/:mongoId, up to
\* the await of findOne
GetBegin(r, databaseName, mongoId) ==
  /\ Arrive(r)
  /\ LET d == Destructure(databaseName)
         q == [req[r] EXCEPT !.op = "get", !.db = databaseName, !.client = d.client,
                             !.connectionName = d.connectionName]
     IN IF d.throws THEN Unhandled(r, q)
        ELSE IF d.client = 0 THEN Plain(r, q, 404)
        ELSE IF ~ObjectIdIsValid(mongoId) THEN Plain(r, q, 400)
        ELSE /\ req' = [req EXCEPT ![r] = [q EXCEPT !.pc = "findOne",
                                                    !.id = NewObjectId(mongoId)]]
             /\ res' = NoRes
  /\ UNCHANGED <<CONNECTED_CLIENTS, clients, store, generated, clock>>

\* the backend runs the findOne of a GET by id, and the GET answers
GetFindOne(r) ==
  /\ req[r].pc = "findOne" /\ req[r].op = "get"
  /\ LET q == req[r]
         result == FindOne(q.id)
     IN \/ IF result # NoDoc
           THEN Send(r, q, 200, NoHeader, Undefined, Undefined, <<result>>)
           ELSE Send(r, [q EXCEPT !.connectionName = ""], 404, NoHeader, Undefined,
                     Undefined, <<>>)
        \/ DriverMayThrow(q) /\ Plain(r, q, 500)
  /\ UNCHANGED <<CONNECTED_CLIENTS, clients, store, generated, clock, started>>

\* DELETE /databases/:databaseName/collections/:collectionName/:mongoId, up
\* to the await of deleteOne
DeleteBegin(r, databaseName, mongoId) ==
  /\ Arrive(r)
  /\ LET d == Destructure(databaseName)
         q == [req[r] EXCEPT !.op = "delete", !.db = databaseName, !.client = d.client,
                             !.connectionName = d.connectionName]
     IN IF d.throws THEN Unhandled(r, q)
        ELSE IF ~ObjectIdIsValid(mongoId) THEN Plain(r, q, 400)
        ELSE IF d.client = 0 THEN Plain(r, q, 404)
        ELSE /\ req' = [req EXCEPT ![r] = [q EXCEPT !.pc = "deleteOne",
                                                    !.id = NewObjectId(mongoId)]]
             /\ res' = NoRes
  /\ UNCHANGED <<CONNECTED_CLIENTS, clients, store, generated, clock>>

\* the If-Match headers a DELETE may carry (the handler never reads them):
\* none, a made-up one, the fingerprint of the document it names
DeleteIfMatchValues(id) ==
  {NoHeader, TextHeader("stale-value")}
    \cup (IF id # Undefined /\ store[id.n] # NoDoc THEN {CurrentETag(store[id.n])}
          ELSE {})
\* (mutant) a DELETE that answers 204 whatever deletedCount is
DeleteStatusAlways204(deletedCount) == 204
\* result.deletedCount === 0 ? 404 : 204
DeleteStatus(deletedCount) == IF deletedCount = 0 THEN 404 ELSE 204

\* the backend runs the deleteOne, and the DELETE answers 204, or 404 when
\* deletedCount is 0; ifMatch is the header the request came with
DeleteOne(r, ifMatch) ==
  /\ req[r].pc = "deleteOne"
  /\ LET q == [req[r] EXCEPT !.ifMatch = ifMatch]
         deletedCount == IF store[q.id.n] = NoDoc THEN 0 ELSE 1
     IN \/ /\ store' = [store EXCEPT ![q.id.n] = NoDoc]
           /\ Plain(r, q, DeleteStatus(deletedCount))
        \/ /\ DriverMayThrow(q)
           /\ Plain(r, q, 500)
           /\ UNCHANGED store
  /\ UNCHANGED <<CONNECTED_CLIENTS, clients, generated, clock, started>>

(* -------------------------- DatabaseService --------------------------- *)

\* (mutant) the registry written before connect and ping are awaited
RegistryAfterConnectEager(ok, databaseName, entry) ==
  [CONNECTED_CLIENTS EXCEPT ![databaseName] = entry]
\* CONNECTED_CLIENTS[databaseName] = { client, connectionName } is reached
\* only when the awaits of connect and ping both return
RegistryAfterConnect(ok, databaseName, entry) ==
  IF ok THEN [CONNECTED_CLIENTS EXCEPT ![databaseName] = entry] ELSE CONNECTED_CLIENTS

\* POST /databases/:databaseName?uri=..: the handler touches nothing shared
\* before the registry write that follows its two awaits (connect, ping),
\* so it is one step; ok says whether connect and ping both succeed
Connect(r, databaseName, uriGiven, ok, connectionName) ==
  /\ req[r].pc = "idle"
  /\ LET q == [req[r] EXCEPT !.op = "connect", !.db = databaseName,
                             !.connectionName = connectionName]
         entry == [own |-> TRUE, client |-> Len(clients) + 1,
                   connectionName |-> connectionName]
     IN IF ~uriGiven
        THEN /\ Plain(r, [q EXCEPT !.connectionName = ""], 400)
             /\ UNCHANGED <<CONNECTED_CLIENTS, clients>>
        ELSE IF ~ok
        THEN /\ Plain(r, [q EXCEPT !.connectionName = ""], 500)
             /\ CONNECTED_CLIENTS' = RegistryAfterConnect(FALSE, databaseName, entry)
             /\ UNCHANGED clients
        ELSE /\ Len(clients) < MaxClients
             /\ clients' = Append(clients, [open |-> TRUE, closes |-> 0])
             /\ CONNECTED_CLIENTS' = RegistryAfterConnect(TRUE, databaseName, entry)
             /\ Plain(r, [q EXCEPT !.client = Len(clients) + 1], 200)
  /\ UNCHANGED <<store, generated, clock, started>>

\* DELETE /databases/:databaseName, up to the await of client.close()
DisconnectBegin(r, databaseName) ==
  /\ Arrive(r)
  /\ LET d == Destructure(databaseName)
         q == [req[r] EXCEPT !.op = "disconnect", !.db = databaseName,
                             !.client = d.client, !.connectionName = d.connectionName]
     IN IF d.throws THEN Unhandled(r, q)
        ELSE IF d.client = 0 THEN Plain(r, q, 404)
        ELSE /\ req' = [req EXCEPT ![r] = [q EXCEPT !.pc = "close"]]
             /\ res' = NoRes
  /\ UNCHANGED <<CONNECTED_CLIENTS, clients, store, generated, clock>>

\* (mutant) the entry deleted whether close returned or threw
RegistryAfterCloseAlways(closed, databaseName) ==
  [CONNECTED_CLIENTS EXCEPT ![databaseName] = NoEntry]
\* delete CONNECTED_CLIENTS[databaseName] follows await client.close() inside
\* the try: it runs only when close returned
RegistryAfterClose(closed, databaseName) ==
  IF closed THEN [CONNECTED_CLIENTS EXCEPT ![databaseName] = NoEntry]
  ELSE CONNECTED_CLIENTS

\* client.close() finishes: the entry of the name is deleted and the request
\* answers 200, or close throws and the request answers 500
DisconnectClose(r) ==
  /\ req[r].pc = "close"
  /\ LET q == req[r]
     IN \/ /\ clients' = [clients EXCEPT ![q.client] =
                            [open |-> FALSE, closes |-> clients[q.client].closes + 1]]
           /\ CONNECTED_CLIENTS' = RegistryAfterClose(TRUE, q.db)
           /\ Plain(r, q, 200)
        \/ /\ Plain(r, [q EXCEPT !.connectionName = ""], 500)
           /\ CONNECTED_CLIENTS' = RegistryAfterClose(FALSE, q.db)
           /\ UNCHANGED clients
  /\ UNCHANGED <<store, generated, clock, started>>

(* ------------------------------- clock -------------------------------- *)

\* a millisecond passes
Tick ==
  /\ clock < MaxClock
  /\ clock' = clock + 1
  /\ res' = NoRes
  /\ UNCHANGED <<CONNECTED_CLIENTS, clients, store, generated, req, started>>

(* ---------------------------- specification --------------------------- *)

Next ==
  \/ \E r \in Reqs, d \in DatabaseNames, m \in IdTexts(KnownIds) :
        started < MaxOps /\ PutMongoIdBegin(r, d, m)
  \/ \E r \in Reqs, d \in DatabaseNames, m \in IdTexts(KnownIds) \cup {Undefined} :
        started < MaxOps /\ PutBodyIdBegin(r, d, m)
  \/ \E r \in Reqs : PutFindOne(r)
  \/ \E r \in Reqs : \E b \in BodiesOf(req[r]), h \in IfMatchValues : PutAfterFind(r, b, h)
  \/ \E r \in Reqs : PutReplaceOne(r)
  \/ \E r \in Reqs : PutInsertOne(r)
  \/ \E r \in Reqs, d \in DatabaseNames, f \in Filters, l \in QueryParams,
        s \in QueryParams : started < MaxOps /\ ListBegin(r, d, f, l, s)
  \/ \E r \in Reqs : ListFind(r)
  \/ \E r \in Reqs, d \in DatabaseNames, m \in IdTexts(KnownIds) : started < MaxOps /\ GetBegin(r, d, m)
  \/ \E r \in Reqs : GetFindOne(r)
  \/ \E r \in Reqs, d \in DatabaseNames, m \in IdTexts(KnownIds) : started < MaxOps /\ DeleteBegin(r, d, m)
  \/ \E r \in Reqs : \E h \in DeleteIfMatchValues(req[r].id) : DeleteOne(r, h)
  \/ \E r \in Reqs, d \in ConnectNames, u \in BOOLEAN, ok \in BOOLEAN, a \in Aliases :
        Connect(r, d, u, ok, a)
  \/ \E r \in Reqs, d \in DatabaseNames : started < MaxOps /\ DisconnectBegin(r, d)
  \/ \E r \in Reqs : DisconnectClose(r)
  \/ Tick

Spec == Init /\ [][Next]_vars

\* The document protocol on its own: one database, connected once and never
\* disconnected, and well-formed identifiers.
NextDocs ==
  \/ \E r \in Reqs, m \in KnownIds : PutMongoIdBegin(r, "db1", HexText(m))
  \/ \E r \in Reqs, m \in {HexText(i) : i \in KnownIds} \cup {Undefined} :
        PutBodyIdBegin(r, "db1", m)
  \/ \E r \in Reqs : PutFindOne(r)
  \/ \E r \in Reqs : \E b \in BodiesOf(req[r]), h \in IfMatchValues : PutAfterFind(r, b, h)
  \/ \E r \in Reqs : PutReplaceOne(r)
  \/ \E r \in Reqs : PutInsertOne(r)
  \/ \E r \in Reqs, m \in KnownIds : GetBegin(r, "db1", HexText(m))
  \/ \E r \in Reqs : GetFindOne(r)
  \/ \E r \in Reqs, m \in KnownIds : DeleteBegin(r, "db1", HexText(m))
  \/ \E r \in Reqs : \E h \in DeleteIfMatchValues(req[r].id) : DeleteOne(r, h)
  \/ ~CONNECTED_CLIENTS["db1"].own /\ Connect(1, "db1", TRUE, TRUE, "able-ant")
  \/ Tick

SpecDocs == Init /\ [][NextDocs]_vars

(* ------------------------------- claims ------------------------------- *)

\* What the claims speak of, said without the handlers' helpers.
ComputedKeys == {"_id", "_createdAt", "_lastModified"}
IsNonComputed(p) == ~(p[1] \in ComputedKeys)
\* the non-computed fields of a document or a body, in their order
NonComputed(doc) == SelectSeq(doc, IsNonComputed)
\* the fingerprint of a list of fields
Fingerprint(fields) == sha256base64(fields)
\* the stored lastModified, or createdAt when lastModified is null
StoredLastModified(doc) ==
  IF GetProp(doc, "_lastModified") = Null THEN GetProp(doc, "_createdAt")
  ELSE GetProp(doc, "_lastModified")
\* two objects with the same keys and the same value for each
SameObject(a, b) ==
  /\ KeysOf(a) = KeysOf(b)
  /\ \A k \in KeysOf(a) : GetProp(a, k) = GetProp(b, k)
HeaderEmpty(h) == h.kind = "text" /\ h.text = ""
\* the document a PUT found is the one stored under its identifier when the
\* backend ran its findOne
ReadsStored(r) ==
  (req[r].pc = "findOne" /\ req[r].op = "put" /\ req'[r].pc = "afterFind")
     => req'[r].existingDoc = (IF req[r].id = Undefined THEN NoDoc ELSE store[req[r].id.n])

\* r is a PUT whose continuation after findOne runs in this step, having
\* found a document
ContinuesOnFound(r) ==
  /\ req[r].pc = "afterFind" /\ req'[r].pc # "afterFind"
  /\ req[r].existingDoc # NoDoc
\* the If-Match header of the request whose continuation runs in this step
IfMatchOf(r) == IF req'[r].pc = "idle" THEN res'.ifMatch ELSE req'[r].ifMatch

\* C1: a PUT that finds a document under its id and carries no If-Match
\* header is answered 409, with ETag = the fingerprint of the non-computed
\* fields of the document found, Last-Modified = its lastModified (createdAt
\* when that is null), and the step changes no stored document.
C1_MissingIfMatch ==
  [][\A r \in Reqs :
       /\ ReadsStored(r)
       /\ (ContinuesOnFound(r) /\ IfMatchOf(r) = NoHeader)
            => /\ req'[r].pc = "idle"
               /\ res'.status = 409
               /\ res'.etag = Fingerprint(NonComputed(req[r].existingDoc))
               /\ res'.lastModified = StoredLastModified(req[r].existingDoc)
               /\ store' = store]_vars

C1_Witness ==
  /\ res.op = "put" /\ res.status = 409 /\ res.ifMatch = NoHeader
  /\ \E i \in AllIds :
       /\ store[i] # NoDoc
       /\ GetProp(store[i], "_lastModified") # Null
       /\ res.etag = Fingerprint(NonComputed(store[i]))
       /\ res.lastModified = GetProp(store[i], "_lastModified")

\* C2 as claimed: a PUT that finds a document and carries an If-Match header
\* other than the fingerprint of its non-computed fields is answered 412,
\* with the headers of the 409 case, and changes no stored document.
C2_AnyStaleIfMatch ==
  [][\A r \in Reqs :
       (/\ ContinuesOnFound(r)
        /\ IfMatchOf(r) # NoHeader
        /\ IfMatchOf(r) # Fingerprint(NonComputed(req[r].existingDoc)))
         => /\ req'[r].pc = "idle"
            /\ res'.status = 412
            /\ res'.etag = Fingerprint(NonComputed(req[r].existingDoc))
            /\ res'.lastModified = StoredLastModified(req[r].existingDoc)
            /\ store' = store]_vars

\* C2 as amended: the same for an If-Match header whose value is not empty;
\* a header with an empty value is answered 409, like a missing one.
C2_StaleIfMatch ==
  [][\A r \in Reqs :
       (/\ ContinuesOnFound(r)
        /\ IfMatchOf(r) # NoHeader
        /\ IfMatchOf(r) # Fingerprint(NonComputed(req[r].existingDoc)))
         => /\ req'[r].pc = "idle"
            /\ res'.status = IF HeaderEmpty(IfMatchOf(r)) THEN 409 ELSE 412
            /\ res'.etag = Fingerprint(NonComputed(req[r].existingDoc))
            /\ res'.lastModified = StoredLastModified(req[r].existingDoc)
            /\ store' = store]_vars

C2_Witness ==
  /\ res.op = "put" /\ res.status = 412 /\ res.ifMatch.kind = "digest"
  /\ \E i \in AllIds :
       /\ store[i] # NoDoc
       /\ res.etag = Fingerprint(NonComputed(store[i]))
       /\ res.etag # res.ifMatch
       /\ res.lastModified = StoredLastModified(store[i])

\* r is a PUT whose replaceOne, or insertOne, the backend runs in this step
Replaces(r) == req[r].pc = "replaceOne" /\ req'[r].pc = "idle"
Inserts(r) == req[r].pc = "insertOne" /\ req'[r].pc = "idle"
\* doc is the merge of the non-computed fields of existing and of body, with
\* the id and createdAt of existing and lastModified = now
IsMergeOf(doc, existing, body, now) ==
  /\ Len(doc) = Cardinality(KeysOf(doc))
  /\ KeysOf(NonComputed(doc)) = KeysOf(NonComputed(existing)) \cup KeysOf(NonComputed(body))
  /\ \A k \in KeysOf(NonComputed(body)) : GetProp(doc, k) = GetProp(body, k)
  /\ \A k \in KeysOf(NonComputed(existing)) \ KeysOf(NonComputed(body)) :
       GetProp(doc, k) = GetProp(existing, k)
  /\ GetProp(doc, "_id") = GetProp(existing, "_id")
  /\ GetProp(doc, "_createdAt") = GetProp(existing, "_createdAt")
  /\ GetProp(doc, "_lastModified") = toISOString(now)

\* C3: a PUT that finds a document and carries an If-Match equal to the
\* fingerprint of its non-computed fields goes on to replaceOne with the
\* merge of the document found and the stripped body (body values win, the
\* other stored fields stay, id and createdAt are those found, lastModified
\* is the time of the update); the replace stores that document under the id
\* if the id still has a document, and the PUT is answered 204 with
\* Last-Modified = that lastModified.
C3_ConditionalUpdate ==
  [][\A r \in Reqs :
       /\ ReadsStored(r)
       /\ (ContinuesOnFound(r)
           /\ IfMatchOf(r) = Fingerprint(NonComputed(req[r].existingDoc)))
            => /\ req'[r].pc = "replaceOne"
               /\ IsMergeOf(req'[r].doc, req[r].existingDoc, req'[r].body, clock)
               /\ store' = store
       /\ Replaces(r)
            => /\ res'.status = 204
               /\ res'.lastModified = GetProp(req[r].doc, "_lastModified")
               /\ \A i \in AllIds :
                    IF i = req[r].id.n /\ store[i] # NoDoc
                    THEN SameObject(store'[i], req[r].doc)
                    ELSE store'[i] = store[i]]_vars

\* an update answered 204 that has stored name = b over a stored name = a and
\* kept the stored tag, with lastModified after createdAt
C3_Witness ==
  /\ res.op = "put" /\ res.status = 204
  /\ \E i \in AllIds :
       /\ store[i] # NoDoc
       /\ GetProp(store[i], "name") = Str("b")
       /\ GetProp(store[i], "tag") = Str("a")
       /\ res.lastModified = GetProp(store[i], "_lastModified")
       /\ GetProp(store[i], "_lastModified") # Null
       /\ DateOf(GetProp(store[i], "_lastModified")) > DateOf(GetProp(store[i], "_createdAt"))

\* C4: a replace by a PUT whose document has been replaced by another PUT
\* since it read it (both passed the If-Match check on the same document)
\* does not overwrite what the other stored, and is not answered 204.
C4_SecondReplaceLoses ==
  [][\A r \in Reqs :
       (/\ Replaces(r)
        /\ store[req[r].id.n] # NoDoc
        /\ store[req[r].id.n] # req[r].existingDoc)
         => /\ store' = store
            /\ res'.status # 204]_vars

\* C5: the ETag of a 204 response is the fingerprint of the non-computed
\* fields of the document that the update stored.
C5_UpdateETagIsStoredFingerprint ==
  [][\A r \in Reqs :
       (Replaces(r) /\ res'.status = 204 /\ store'[req[r].id.n] # NoDoc
                    /\ store'[req[r].id.n] # store[req[r].id.n])
         => res'.etag = Fingerprint(NonComputed(store'[req[r].id.n]))]_vars

\* C6: the ETag of a 201 response is the fingerprint of the non-computed
\* fields of the document inserted, which is what the next PUT on the id
\* compares If-Match with.
C6_CreateETagIsStoredFingerprint ==
  [][\A r \in Reqs :
       (Inserts(r) /\ res'.status = 201)
         => /\ res'.etag = Fingerprint(NonComputed(req[r].body))
            /\ res'.etag = Fingerprint(NonComputed(store'[res'.insertedId.n]))]_vars

\* C7: a PUT that found no document and is answered 201 has inserted exactly
\* one document: the stripped body with createdAt = the time of creation and
\* lastModified = null, under the id given if one was given and under a
\* fresh id otherwise; the response names that id and has Last-Modified =
\* createdAt.
C7_CreateInsertsOne ==
  [][\A r \in Reqs :
       (Inserts(r) /\ res'.status = 201)
         => LET i == res'.insertedId.n
            IN /\ i \in AllIds
               /\ store[i] = NoDoc /\ store'[i] # NoDoc
               /\ \A j \in AllIds \ {i} : store'[j] = store[j]
               /\ NonComputed(store'[i]) = NonComputed(req[r].body)
               /\ GetProp(store'[i], "_id") = Oid(i)
               /\ GetProp(store'[i], "_lastModified") = Null
               /\ GetProp(store'[i], "_createdAt").kind = "iso"
               /\ DateOf(GetProp(store'[i], "_createdAt")) <= clock
               /\ res'.lastModified = GetProp(store'[i], "_createdAt")
               /\ IF req[r].id # Undefined THEN i = req[r].id.n
                  ELSE i > NumClientIds + generated]_vars

\* the request that arrives in this step: its operation and database name
Arrived ==
  IF res' # NoRes THEN [op |-> res'.op, db |-> res'.db]
  ELSE LET r == CHOOSE x \in Reqs : req'[x] # req[x]
       IN [op |-> req'[r].op, db |-> req'[r].db]

\* C8: an upsert, list, get by id or delete by id that arrives for a database
\* name without registry entry is answered 404 at once (400 if its id is
\* malformed), without any backend call.
C8_NoConnectionIs404 ==
  [][(/\ started' = started + 1
      /\ Arrived.op \in {"put", "list", "get", "delete"}
      /\ ~CONNECTED_CLIENTS[Arrived.db].own)
       => /\ res'.status \in {400, 404}
          /\ req' = req
          /\ store' = store]_vars

\* C9: a document is stored with lastModified = null when it is created, and
\* every step that changes a stored document gives it a lastModified greater
\* than the one it had.
C9_LastModifiedIncreases ==
  [][\A i \in AllIds :
       /\ (store[i] = NoDoc /\ store'[i] # NoDoc)
            => GetProp(store'[i], "_lastModified") = Null
       /\ (store[i] # NoDoc /\ store'[i] # NoDoc /\ store'[i] # store[i])
            => /\ GetProp(store'[i], "_lastModified") # Null
               /\ GetProp(store[i], "_lastModified") # Null
                    => DateOf(GetProp(store'[i], "_lastModified"))
                         > DateOf(GetProp(store[i], "_lastModified"))]_vars

\* C10: no step changes the id or the createdAt of a document that is stored
\* before it and after it.
C10_IdAndCreatedAtFixed ==
  [][\A i \in AllIds :
       (store[i] # NoDoc /\ store'[i] # NoDoc)
         => /\ GetProp(store'[i], "_id") = GetProp(store[i], "_id")
            /\ GetProp(store'[i], "_createdAt") = GetProp(store[i], "_createdAt")]_vars

\* r is a DELETE by id, or a GET by id, that the backend answers in this step
Deletes(r) == req[r].pc = "deleteOne" /\ req'[r].pc = "idle"
Gets(r) == req[r].pc = "findOne" /\ req[r].op = "get" /\ req'[r].pc = "idle"

\* C11: on the connected database, a DELETE by id removes the document of
\* that id and is answered 204 when there is one, whatever its If-Match
\* header, and is answered 404 and changes nothing when there is none; a GET
\* by id is answered 404 with no item and count 0 while the id has no
\* document, and an id without document gets one only by the insert of a PUT.
C11_DeleteThenMiss ==
  [][/\ \A r \in Reqs : Deletes(r) =>
          LET i == req[r].id.n
          IN /\ \A j \in AllIds \ {i} : store'[j] = store[j]
             /\ IF store[i] # NoDoc
                THEN res'.status = 204 /\ store'[i] = NoDoc
                ELSE res'.status = 404 /\ store' = store
     /\ \A r \in Reqs : Gets(r) =>
          /\ store' = store
          /\ IF store[req[r].id.n] = NoDoc
             THEN res'.status = 404 /\ res'.items = <<>> /\ res'.count = 0
             ELSE res'.status = 200
     /\ \A i \in AllIds : (store[i] = NoDoc /\ store'[i] # NoDoc) =>
          \E r \in Reqs : Inserts(r) /\ res'.status = 201 /\ res'.insertedId = Oid(i)]_vars

\* a DELETE that carried a made-up If-Match header was answered 204 and the
\* document that an earlier PUT had created is gone
C11_Witness ==
  /\ res.op = "delete" /\ res.status = 204
  /\ res.ifMatch = TextHeader("stale-value")
  /\ started >= 2
  /\ \A i \in AllIds : store[i] = NoDoc

\* C12: a GET, a PUT and a DELETE whose path id is not a well-formed
\* identifier are answered 400 at once: no backend call is started and no
\* document changes.
C12_MalformedIdIs400 ==
  [][\A r \in Reqs, d \in DatabaseNames :
       (\/ PutMongoIdBegin(r, d, NotAnId)
        \/ GetBegin(r, d, NotAnId)
        \/ DeleteBegin(r, d, NotAnId))
         => /\ res'.status = 400
            /\ req' = req
            /\ store' = store]_vars

\* r is a Disconnect whose client.close() finishes in this step
Closes(r) == req[r].pc = "close" /\ req'[r].pc = "idle"

\* C14: a Connect whose connect or ping fails is answered 500 and leaves the
\* registry, and the handles it holds, as they were; any Connect that is not
\* answered 200 leaves the registry as it was.
C14_FailedConnectKeepsRegistry ==
  [][/\ \A r \in Reqs, d \in ConnectNames, a \in Aliases :
          Connect(r, d, TRUE, FALSE, a)
            => /\ res'.status = 500
               /\ CONNECTED_CLIENTS' = CONNECTED_CLIENTS
               /\ clients' = clients
     /\ (res'.op = "connect" /\ res'.status # 200)
          => CONNECTED_CLIENTS' = CONNECTED_CLIENTS]_vars

\* a Connect was answered 500 while the name has an entry, which still has
\* its open handle and its alias
C14_Witness ==
  /\ res.op = "connect" /\ res.status = 500
  /\ CONNECTED_CLIENTS["db1"].own
  /\ CONNECTED_CLIENTS["db1"].connectionName \in Aliases
  /\ clients[CONNECTED_CLIENTS["db1"].client].open

\* C15: a Disconnect of a name that has no registry entry is answered 404,
\* closes no handle and leaves the registry as it was.
C15_DisconnectUnknownIs404 ==
  [][\A r \in Reqs, d \in DatabaseNames :
       (DisconnectBegin(r, d) /\ ~CONNECTED_CLIENTS[d].own)
         => /\ res'.status = 404
            /\ req' = req
            /\ clients' = clients
            /\ CONNECTED_CLIENTS' = CONNECTED_CLIENTS]_vars

\* C16: when the close of a Disconnect throws, the request is answered 500
\* and the registry and the handles stay as they were; when it returns, the
\* request is answered 200, the name has no entry any more, and the response
\* carries the alias of the entry whose handle was closed (the registered
\* one, if the name still had that handle).
C16_EntryRemovedOnlyOnClose ==
  [][\A r \in Reqs : Closes(r) =>
       LET q == req[r]
       IN \/ /\ res'.status = 500
             /\ CONNECTED_CLIENTS' = CONNECTED_CLIENTS
             /\ clients' = clients
          \/ /\ res'.status = 200
             /\ ~clients'[q.client].open
             /\ CONNECTED_CLIENTS'[q.db] = NoEntry
             /\ \A d \in DatabaseNames \ {q.db} :
                  CONNECTED_CLIENTS'[d] = CONNECTED_CLIENTS[d]
             /\ res'.name = q.connectionName
             /\ (CONNECTED_CLIENTS[q.db].own /\ CONNECTED_CLIENTS[q.db].client = q.client)
                  => res'.name = CONNECTED_CLIENTS[q.db].connectionName]_vars

\* a Disconnect was answered 500 and the entry is still there, with its
\* handle open: the Disconnect can be tried again
C16_Witness ==
  /\ res.op = "disconnect" /\ res.status = 500
  /\ CONNECTED_CLIENTS["db1"].own
  /\ CONNECTED_CLIENTS["db1"].connectionName \in Aliases
  /\ clients[CONNECTED_CLIENTS["db1"].client].open
  /\ clients[CONNECTED_CLIENTS["db1"].client].closes = 0

\* C17: no handle is closed more than once.
C17_NoDoubleClose ==
  \A c \in 1..Len(clients) : clients[c].closes <= 1

\* C13: the document that a PUT answered 201 has inserted under the id of
\* its response has the non-computed fields of the request body; a GET on an
\* id that has a document is answered 200 with that document as its one
\* item.  So a GET on the id of a 201, when nothing wrote the document in
\* between, returns the non-computed fields of the body that created it.
C13_CreateReadRoundTrip ==
  [][/\ \A r \in Reqs : (Inserts(r) /\ res'.status = 201) =>
          /\ store'[res'.insertedId.n] # NoDoc
          /\ NonComputed(store'[res'.insertedId.n]) = NonComputed(req[r].body)
     /\ \A r \in Reqs : (Gets(r) /\ store[req[r].id.n] # NoDoc) =>
          /\ res'.status = 200
          /\ res'.count = 1
          /\ res'.items = <<store[req[r].id.n]>>]_vars

\* a GET was answered 200 with one item that has not been written since its
\* creation and has the two fields of the body that created it
C13_Witness ==
  /\ res.op = "get" /\ res.status = 200 /\ res.count = 1
  /\ Len(res.items) = 1
  /\ GetProp(res.items[1], "_lastModified") = Null
  /\ NonComputed(res.items[1]) = <<<<"name", Str("a")>>, <<"tag", Str("a")>>>>
  /\ \E i \in AllIds : store[i] = res.items[1]

\* the key/value pairs of a list of fields, whatever their order
PairsOf(fields) == {fields[k] : k \in 1..Len(fields)}

\* C18: an If-Match header that is the fingerprint of fields with the same
\* keys and values as the non-computed fields of the document found, in
\* whatever key order, matches: the PUT goes on to replace the document.
C18_FingerprintIgnoresKeyOrder ==
  [][\A r \in Reqs :
       (/\ ContinuesOnFound(r)
        /\ IfMatchOf(r).kind = "digest"
        /\ PairsOf(IfMatchOf(r).of) = PairsOf(NonComputed(req[r].existingDoc)))
         => /\ IfMatchOf(r) = Fingerprint(NonComputed(req[r].existingDoc))
            /\ req'[r].pc = "replaceOne"]_vars

\* the way a PUT that found a document goes in this step: the status it
\* answers, or 204 when it goes on to the replace
OutcomeOf(r) == IF req'[r].pc = "replaceOne" THEN 204 ELSE res'.status
\* the way the If-Match check goes by the header and the non-computed fields
OutcomeBy(fields, header) ==
  IF header = NoHeader \/ HeaderEmpty(header) THEN 409
  ELSE IF header # Fingerprint(fields) THEN 412
  ELSE 204

\* C19: the way a PUT on an existing document goes (409, 412 or on to 204)
\* is a function of its If-Match header and of the non-computed fields of
\* the document found, and so is the ETag of a 409 and of a 412; the ETag of
\* a 204 is a function of the request body.  A stored document with the same
\* non-computed fields as the one found, whatever its id, createdAt and
\* lastModified, has the same fingerprint and goes the same way for every
\* header.
C19_MatchIgnoresComputedFields ==
  [][/\ \A r \in Reqs : ContinuesOnFound(r) =>
          /\ OutcomeOf(r) = OutcomeBy(NonComputed(req[r].existingDoc), IfMatchOf(r))
          /\ OutcomeOf(r) # 204 =>
               res'.etag = Fingerprint(NonComputed(req[r].existingDoc))
          /\ \A i \in AllIds :
               (/\ store[i] # NoDoc
                /\ NonComputed(store[i]) = NonComputed(req[r].existingDoc))
                 => /\ CurrentETag(store[i]) = CurrentETag(req[r].existingDoc)
                    /\ \A h \in IfMatchValues :
                         MatchOutcome(store[i], h) = MatchOutcome(req[r].existingDoc, h)
     /\ \A r \in Reqs : (Replaces(r) /\ res'.status = 204) =>
          res'.etag = Fingerprint(NonComputed(req[r].body))]_vars

\* two documents are stored with the same non-computed fields and different
\* ids, createdAt and lastModified, and a PUT whose If-Match is their
\* fingerprint has just been answered 204
C19_Witness ==
  /\ res.op = "put" /\ res.status = 204
  /\ \E i, j \in AllIds :
       /\ store[i] # NoDoc /\ store[j] # NoDoc
       /\ NonComputed(store[i]) = NonComputed(store[j])
       /\ GetProp(store[i], "_id") # GetProp(store[j], "_id")
       /\ GetProp(store[i], "_createdAt") # GetProp(store[j], "_createdAt")
       /\ GetProp(store[i], "_lastModified") # GetProp(store[j], "_lastModified")
       /\ res.ifMatch = Fingerprint(NonComputed(store[i]))

\* C20: a list on a connected database whose filter is the JSON of an object
\* with any of query, projection and options missing is not answered with an
\* error: it goes on to the find of the backend.
C20_MissingSubObjectsAreEmpty ==
  [][\A r \in Reqs, d \in DatabaseNames, f \in Filters :
       (/\ f.given /\ f.json
        /\ CONNECTED_CLIENTS[d].own
        /\ ListBegin(r, d, f, Undefined, Undefined))
         => /\ req'[r].pc = "find"
            /\ res' = NoRes]_vars

\* C21: the limit and the skip of a list that goes to the backend are
\* non-negative, and are 0 when the parameter is absent or is no number.
C21_LimitSkipNonNegative ==
  [][\A r \in Reqs, d \in DatabaseNames, f \in Filters, l \in QueryParams, s \in QueryParams :
       (ListBegin(r, d, f, l, s) /\ req'[r].pc = "find")
         => /\ req'[r].limit >= 0
            /\ req'[r].skip >= 0
            /\ l \in {Undefined, Str("abc")} => req'[r].limit = 0
            /\ s \in {Undefined, Str("abc")} => req'[r].skip = 0]_vars

\* r inserts while another PUT that found no document under the same given
\* id waits for its own insert
InsertsFirstOfTwo(r) ==
  /\ Inserts(r) /\ req[r].id # Undefined
  /\ \E x \in Reqs \ {r} : req[x].pc = "insertOne" /\ req[x].id = req[r].id

\* C22: of two PUTs that both found no document under the same given id,
\* the one that inserts while the id has no document is answered 201 and
\* stores its document, whole, under that id, and the one that inserts when
\* the id has a document is answered 500 and stores nothing: one document
\* has the id, one request has the 201.
C22_OneCreateWins ==
  [][\A r \in Reqs :
       /\ (InsertsFirstOfTwo(r) /\ store[req[r].id.n] = NoDoc)
            => /\ res'.status = 201
               /\ res'.insertedId = req[r].id
               /\ SameObject(store'[req[r].id.n], SetProp(req[r].doc, "_id", req[r].id))
               /\ \A j \in AllIds \ {req[r].id.n} : store'[j] = store[j]
       /\ (Inserts(r) /\ req[r].id # Undefined /\ store[req[r].id.n] # NoDoc)
            => /\ res'.status = 500
               /\ store' = store]_vars

\* C23: a PUT is answered 204 only when its replace has stored the merged
\* document: a replace that finds the document gone is not answered 204.
C23_No204WithoutStore ==
  [][\A r \in Reqs : (Replaces(r) /\ res'.status = 204) =>
       /\ store[req[r].id.n] # NoDoc
       /\ SameObject(store'[req[r].id.n], req[r].doc)]_vars

\* C24: a Disconnect whose close returns when the name has an entry with
\* another handle than the one it closed leaves that entry registered.
C24_DisconnectKeepsNewEntry ==
  [][\A r \in Reqs :
       (/\ Closes(r) /\ res'.status = 200
        /\ CONNECTED_CLIENTS[req[r].db].own
        /\ CONNECTED_CLIENTS[req[r].db].client # req[r].client)
         => CONNECTED_CLIENTS' = CONNECTED_CLIENTS]_vars

\* C25: a PUT that goes on to its replaceOne or insertOne after its findOne
\* does so on a handle that is open.
C25_NoCallOnClosedHandle ==
  [][\A r \in Reqs :
       (req[r].pc = "afterFind" /\ req'[r].pc \in {"replaceOne", "insertOne"})
         => clients[req[r].client].open]_vars

====
